---- MODULE Spec2Model ----
(***************************************************************************)
(* Loan data pipeline: the ingestion script ingest/ingest_excel_to_duckdb  *)
(* (source load, Parquet snapshot, optional S3 mirror, RAW load) and the   *)
(* quality gate validate_data_quality, as a state machine over the RAW /   *)
(* SILVER / GOLD tables of the DuckDB store and the snapshot directory.    *)
(***************************************************************************)
EXTENDS Integers, Sequences, FiniteSets, TLC

(* ------------------------------ bounds --------------------------------- *)

\* ingestion runs started in one behaviour
MaxRuns == 2
\* last second of the wall clock (datetime.now() truncated by strftime)
MaxClock == 1
\* number of values uuid4().hex[:8] is drawn from (16^8 in the program)
MaxHex == 2
\* largest row count the transformation leaves in a SILVER / GOLD table
MaxLayerRows == 1

(* --------------------------- program constants ------------------------- *)

retries == 1
min_raw_rows == 1
min_silver_rows == 1
min_gold_rows == 1

\* the two ingestion processes that may be in flight at once
Procs == {"p1", "p2"}

\* the ingestion subprocess of the pipeline run (run_ingestion's subprocess.run)
Pipeline == "p1"

None == "None"

Modes == {"full_refresh", "incremental"}

\* args.table (default) and the table validate_data_quality counts
table_name == "raw_loans"

(* ------------------------------ the sources ---------------------------- *)

\* the spreadsheets on disk and the number of data rows of each
ExcelRows == [f \in {"a.xlsx", "b.xls", "e.xlsx"} |->
                 CASE f = "a.xlsx" -> 1
                   [] f = "b.xls"  -> 2
                   [] f = "e.xlsx" -> 0]

\* the data columns of each spreadsheet: b.xls has no Purpose column
ExcelColumns == [f \in {"a.xlsx", "b.xls", "e.xlsx"} |->
                    IF f = "b.xls" THEN {"Loan_ID"} ELSE {"Loan_ID", "Purpose"}]

\* the two columns load_excel_files adds to every frame
Provenance == {"_source_file", "_ingestion_timestamp"}

\* the missing value pd.concat fills an absent column with
NaN == <<>>

\* the directory "data" lists its files in discovery order
DirListing == [d \in {"data"} |-> <<"a.xlsx", "b.xls", "e.xlsx">>]

\* excel_path, excel_dir and excel_pattern values a caller may pass
ExcelPathArgs == {None, "a.xlsx", "missing.xlsx"}
ExcelDirArgs == {None, "data", "nodir"}
ExcelPatternArgs == {None, "e*", "z*"}

\* Path.glob: the files of a listing a pattern matches
GlobMatch(pattern, f) ==
    CASE pattern = "*.xlsx" -> f \in {"a.xlsx", "e.xlsx"}
      [] pattern = "*.xls"  -> f \in {"b.xls"}
      [] pattern = "e*"     -> f \in {"e.xlsx"}
      [] OTHER              -> FALSE

Glob(dir, pattern) ==
    SelectSeq(DirListing[dir], LAMBDA f : GlobMatch(pattern, f))

\* a frame without columns and rows
EmptyFrame == [columns |-> {}, rows |-> <<>>]

\* pd.read_excel(f) followed by the two provenance assignments: one row per
\* data row, a cell per column, stamped with the file's name and the time
ReadExcel(f, ts) ==
    [columns |-> ExcelColumns[f] \cup Provenance,
     rows |-> [k \in 1..ExcelRows[f] |->
                  [c \in ExcelColumns[f] \cup Provenance |->
                      CASE c = "_source_file" -> f
                        [] c = "_ingestion_timestamp" -> ts
                        [] OTHER -> <<f, k>>]]]

\* mutant: pd.concat(join='inner'), only the columns every frame has
ConcatColumnsInner(dfs) ==
    {c \in UNION {dfs[i].columns : i \in 1..Len(dfs)} :
        \A i \in 1..Len(dfs) : c \in dfs[i].columns}

\* the columns of pd.concat's result (join='outer', the default)
ConcatColumns(dfs) ==
    UNION {dfs[i].columns : i \in 1..Len(dfs)}

\* the rows of a frame over the result's columns: a column the frame does
\* not have is NaN in each of its rows
Reindex(df, columns) ==
    [i \in 1..Len(df.rows) |->
        [c \in columns |-> IF c \in df.columns THEN df.rows[i][c] ELSE NaN]]

RECURSIVE ConcatRows(_, _)
\* the rows of the frames, frame after frame
ConcatRows(dfs, columns) ==
    IF dfs = <<>> THEN <<>>
    ELSE Reindex(Head(dfs), columns) \o ConcatRows(Tail(dfs), columns)

\* mutant: only the first frame is kept
ConcatFramesFirstOnly(dfs) == Head(dfs)

\* return dfs[0] if len(dfs) == 1 else pd.concat(dfs, ignore_index=True)
ConcatFrames(dfs) ==
    IF Len(dfs) = 1 THEN dfs[1]
    ELSE [columns |-> ConcatColumns(dfs),
          rows |-> ConcatRows(dfs, ConcatColumns(dfs))]

\* mutant: excel_dir.glob ignores its pattern
ExcelFilesAnyPattern(excel_dir, excel_pattern) ==
    DirListing[excel_dir]

\* the files of an existing directory that load_excel_files reads
ExcelFiles(excel_dir, excel_pattern) ==
    IF excel_pattern # None
    THEN Glob(excel_dir, excel_pattern)
    ELSE Glob(excel_dir, "*.xlsx") \o Glob(excel_dir, "*.xls")

\* mutant: the directory is looked at before the single path
SourceModeDirectoryFirst(excel_path, excel_dir) ==
    IF excel_dir # None THEN "directory"
    ELSE IF excel_path # None THEN "single"
    ELSE "neither"

\* if excel_path: ... elif excel_dir: ... else: the branch taken
SourceMode(excel_path, excel_dir) ==
    IF excel_path # None THEN "single"
    ELSE IF excel_dir # None THEN "directory"
    ELSE "neither"

\* mutant: with neither source given an empty frame is returned
NoSourceGivenEmptyFrame(excel_path, excel_dir) ==
    [err |-> None, df |-> EmptyFrame]

\* else: raise ValueError("Either --excel or --excel_dir must be specified")
NoSourceGiven(excel_path, excel_dir) ==
    [err |-> "ValueError", df |-> EmptyFrame]

\* mutant: a source that cannot be loaded yields an empty frame
load_excel_files_lenient(excel_path, excel_dir, excel_pattern, ts) ==
    [err |-> None, df |-> EmptyFrame]

\* load_excel_files at time ts: [err |-> exception or None, df |-> the
\* combined frame]
load_excel_files(excel_path, excel_dir, excel_pattern, ts) ==
    CASE SourceMode(excel_path, excel_dir) = "single" ->
            IF excel_path \notin DOMAIN ExcelRows
            THEN [err |-> "FileNotFoundError", df |-> EmptyFrame]
            ELSE [err |-> None, df |-> ConcatFrames(<<ReadExcel(excel_path, ts)>>)]
      [] SourceMode(excel_path, excel_dir) = "directory" ->
            IF excel_dir \notin DOMAIN DirListing
            THEN [err |-> "FileNotFoundError", df |-> EmptyFrame]
            ELSE LET excel_files == ExcelFiles(excel_dir, excel_pattern)
                 IN  IF excel_files = <<>>
                     THEN [err |-> "FileNotFoundError", df |-> EmptyFrame]
                     ELSE [err |-> None,
                           df |-> ConcatFrames([i \in 1..Len(excel_files) |->
                                                   ReadExcel(excel_files[i], ts)])]
      [] OTHER -> NoSourceGiven(excel_path, excel_dir)

(* ----------------------------- the snapshot ---------------------------- *)

\* mutant: the random suffix is left out of the name
ParquetFilenameNoUuid(table, mode, timestamp, hex) ==
    <<table, mode, timestamp, 0>>

\* mutant: the name does not carry the run's mode
ParquetFilenameFixedMode(table, mode, timestamp, hex) ==
    <<table, "full_refresh", timestamp, hex>>

\* f"{table_name}_{mode}_{timestamp}_{uuid.uuid4().hex[:8]}.parquet"
ParquetFilename(table, mode, timestamp, hex) ==
    <<table, mode, timestamp, hex>>

(* ------------------------------- the store ----------------------------- *)

NoTable == [exists |-> FALSE, rows |-> <<>>]

Table(rows) == [exists |-> TRUE, rows |-> rows]

NoLayer == [exists |-> FALSE, n |-> 0]

Layer(n) == [exists |-> TRUE, n |-> n]

(* ------------------------------- the state ----------------------------- *)

VARIABLES
    now,        \* the wall clock, in seconds
    files,      \* raw_dir: snapshot file name -> the frame written to it
    raw,        \* the table raw.raw_loans of the store
    silver,     \* silver.silver_loans
    gold,       \* gold.fact_loan
    proc,       \* the ingestion processes: position and local variables
    gate,       \* the validate_data_quality call: position and locals
    started,    \* ingestion runs started so far
    writes,     \* write_parquet_with_metadata invocations so far
    hist,       \* the successful runs so far, oldest first: <<mode, rows loaded>>
    anyFailed,  \* some ingestion run has failed
    run         \* the run_pipeline call: its step, the steps begun and returned

vars == <<now, files, raw, silver, gold, proc, gate, started, writes, hist, anyFailed, run>>

\* a process before the script starts and after it exits
NoArgs ==
    [via |-> None, mode |-> None, excel |-> None, excel_dir |-> None,
     excel_pattern |-> None]

IdleProc ==
    [pc |-> "idle", args |-> NoArgs, publish |-> FALSE, s3_bucket |-> "",
     mode |-> None, df |-> EmptyFrame, prod |-> FALSE,
     uploaded |-> FALSE, timestamp |-> 0, hex |-> 0,
     parquet_path |-> <<>>, con |-> FALSE,
     table_exists |-> FALSE, count |-> 0, err |-> None,
     pre |-> NoTable, snap |-> <<>>, loads |-> 0, overlap |-> FALSE]

IdleGate ==
    [pc |-> "idle", con |-> FALSE, raw_count |-> 0, silver_count |-> 0,
     gold_count |-> 0, err |-> None]

\* no pipeline run in progress
IdleRun ==
    [step |-> "idle", began |-> <<>>, returned |-> <<>>, failed_at |-> None,
     retries |-> 0, tries |-> 0]

Init ==
    /\ now = 0
    /\ files = [n \in {} |-> EmptyFrame]
    /\ raw = NoTable
    /\ silver = NoLayer
    /\ gold = NoLayer
    /\ proc = [r \in Procs |-> IdleProc]
    /\ gate = IdleGate
    /\ started = 0
    /\ writes = 0
    /\ hist = <<>>
    /\ anyFailed = FALSE
    /\ run = IdleRun

\* the invoker keeps one call on the store in flight at a time
StoreFree ==
    /\ \A q \in Procs : ~proc[q].con
    /\ ~gate.con

\* subprocess.run has returned: the pipeline's ingestion process has exited
IngestionExited == proc[Pipeline].pc = "idle"

\* an uncaught exception ends the script; the connection is not closed
Raise(r, e) ==
    /\ proc' = [proc EXCEPT ![r].pc = "failed", ![r].err = e]
    /\ anyFailed' = TRUE

\* the clock advances
Tick ==
    /\ now < MaxClock
    /\ now' = now + 1
    /\ UNCHANGED <<files, raw, silver, gold, proc, gate, started, writes, hist, anyFailed, run>>

(* ------------------------- the ingestion script ------------------------ *)

\* mutant: the default of --mode is incremental
ParseModeDefaultIncremental(arg) ==
    IF arg = None THEN "incremental"
    ELSE IF arg \in Modes THEN arg
    ELSE "SystemExit"

\* --mode as argparse resolves it: the default when absent, an error when
\* the value is not one of the choices
ParseMode(arg) ==
    IF arg = None THEN "full_refresh"
    ELSE IF arg \in Modes THEN arg
    ELSE "SystemExit"

ModeArgs == Modes \cup {None, "append"}

\* who starts the script: a caller of the script itself, run_ingestion of
\* the orchestrated pipeline, or main of scripts/run_pipeline.py
Invokers == {"script", "run_ingestion", "run_pipeline"}

\* the command line an invoker builds. run_ingestion always passes --mode,
\* and --excel_dir under incremental, --excel otherwise; run_pipeline passes
\* --excel only
Invocation(via, modeArg, excel, excel_dir, excel_pattern) ==
    CASE via = "run_ingestion" ->
            /\ modeArg # None
            /\ excel_pattern = None
            /\ IF modeArg = "incremental"
               THEN excel = None /\ excel_dir # None
               ELSE excel # None /\ excel_dir = None
      [] via = "run_pipeline" ->
            /\ modeArg = None
            /\ excel # None
            /\ excel_dir = None
            /\ excel_pattern = None
      [] OTHER -> TRUE

\* --prod and --s3_bucket as the invoker passes them, given that publishing
\* is requested (--prod to the script or to run_pipeline, ENVIRONMENT =
\* production for run_ingestion) and the bucket of flag or environment ("" when
\* there is none): run_ingestion adds --prod only when it has a bucket,
\* run_pipeline exits when --prod comes without one
Command(via, publish, bucket) ==
    CASE via = "run_ingestion" ->
            [err |-> None, prod |-> publish /\ bucket # "", s3_bucket |-> bucket]
      [] via = "run_pipeline" ->
            IF publish /\ bucket = ""
            THEN [err |-> "SystemExit", prod |-> FALSE, s3_bucket |-> bucket]
            ELSE [err |-> None, prod |-> publish, s3_bucket |-> bucket]
      [] OTHER ->
            [err |-> None, prod |-> publish, s3_bucket |-> bucket]

\* the invoker's command, parse_args and step 1, load_excel_files; args.prod
\* is read after step 1 and args.s3_bucket under args.prod only
StartIngestion(r) ==
    /\ proc[r].pc = "idle"
    /\ gate.pc = "idle"
    /\ started < MaxRuns
    /\ started' = started + 1
    /\ \E via \in Invokers, publish \in BOOLEAN, bucket \in {"", "bucket"},
          modeArg \in ModeArgs, excel \in ExcelPathArgs, excel_dir \in ExcelDirArgs,
          excel_pattern \in ExcelPatternArgs :
          /\ Invocation(via, modeArg, excel, excel_dir, excel_pattern)
          /\ LET cmd == Command(via, publish, bucket)
                 mode == ParseMode(modeArg)
                 res == load_excel_files(excel, excel_dir, excel_pattern, now)
                 parsed == [proc[r] EXCEPT
                               !.args = [via |-> via,
                                         mode |-> modeArg, excel |-> excel,
                                         excel_dir |-> excel_dir,
                                         excel_pattern |-> excel_pattern]]
                 err == IF mode \notin Modes THEN "SystemExit" ELSE res.err
             IN  IF cmd.err # None
                 THEN /\ proc' = [proc EXCEPT ![r] = [parsed EXCEPT !.pc = "failed",
                                                                    !.err = cmd.err,
                                                                    !.publish = publish]]
                      /\ anyFailed' = TRUE
                 ELSE IF err # None
                 THEN /\ proc' = [proc EXCEPT ![r] = [parsed EXCEPT !.pc = "failed",
                                                                    !.err = err]]
                      /\ anyFailed' = TRUE
                 ELSE /\ proc' = [proc EXCEPT ![r] =
                                     [parsed EXCEPT
                                         !.pc = "write_parquet",
                                         !.mode = mode,
                                         !.df = res.df,
                                         !.publish = publish,
                                         !.prod = cmd.prod,
                                         !.s3_bucket = IF cmd.prod THEN cmd.s3_bucket
                                                       ELSE ""]]
                      /\ UNCHANGED anyFailed
    /\ UNCHANGED <<now, files, raw, silver, gold, gate, writes, hist, run>>

\* mutant: the directory is emptied before the file is written
WriteFileTruncating(fs, name, df) ==
    [n \in {name} |-> df]

\* pq.write_table(table, parquet_path): creates the file or replaces it
WriteFile(fs, name, df) ==
    [n \in DOMAIN fs \cup {name} |-> IF n = name THEN df ELSE fs[n]]

\* mutant: the load is started right after the snapshot is written
AfterWriteLoadFirst(prod) == "connect"

\* if args.prod: step 3, upload_to_s3, comes between step 2 and step 4
AfterWrite(prod) ==
    IF prod THEN "upload_to_s3" ELSE "connect"

\* step 2, write_parquet_with_metadata, and the test of args.prod; the
\* source and mode arguments are not read again
WriteParquet(r) ==
    /\ proc[r].pc = "write_parquet"
    /\ \E hex \in 0..(MaxHex - 1) :
          LET parquet_path == ParquetFilename(table_name, proc[r].mode, now, hex)
          IN  /\ files' = WriteFile(files, parquet_path, proc[r].df)
              /\ proc' = [proc EXCEPT ![r].parquet_path = parquet_path,
                                      ![r].timestamp = now,
                                      ![r].hex = hex,
                                      ![r].args = NoArgs,
                                      ![r].pc = AfterWrite(proc[r].prod)]
    /\ writes' = writes + 1
    /\ UNCHANGED <<now, raw, silver, gold, gate, started, hist, anyFailed, run>>

\* mutant: a failed copy is logged and the run goes on
upload_to_s3_swallowing(boto3, s3_bucket, uploaded) == None

\* upload_to_s3: the exception it raises, or None; boto3 is whether the
\* client library is installed, uploaded whether s3.upload_file succeeds
upload_to_s3(boto3, s3_bucket, uploaded) ==
    IF ~boto3 THEN "RuntimeError"
    ELSE IF s3_bucket = "" THEN "ValueError"
    ELSE IF ~uploaded THEN "S3UploadFailedError"
    ELSE None

\* step 3, upload_to_s3 (only under --prod)
UploadToS3(r) ==
    /\ proc[r].pc = "upload_to_s3"
    /\ \E boto3 \in BOOLEAN, uploaded \in BOOLEAN :
          LET e == upload_to_s3(boto3, proc[r].s3_bucket, uploaded)
          IN  IF e # None
              THEN Raise(r, e)
              ELSE /\ proc' = [proc EXCEPT ![r].pc = "connect",
                                           ![r].uploaded = boto3 /\ uploaded
                                                           /\ proc[r].s3_bucket # ""]
                   /\ UNCHANGED anyFailed
    /\ UNCHANGED <<now, files, raw, silver, gold, gate, started, writes, hist, run>>

(* ---------------------------- load_to_duckdb --------------------------- *)

\* mutant: every mode takes the incremental branch
LoadBranchAlwaysIncremental(mode) == "exists_check"

\* if mode == 'full_refresh' ... elif mode == 'incremental': the first
\* statement of the branch taken
LoadBranch(mode) ==
    IF mode = "full_refresh" THEN "drop" ELSE "exists_check"

\* duckdb.connect and CREATE SCHEMA IF NOT EXISTS raw; the store may be
\* unreachable, before or after the connection is made
Connect(r) ==
    /\ proc[r].pc = "connect"
    /\ StoreFree
    /\ \E connected \in BOOLEAN, schema_ok \in BOOLEAN :
          IF ~connected
          THEN Raise(r, "ConnectError")
          ELSE IF ~schema_ok
          THEN /\ proc' = [proc EXCEPT ![r].pc = "failed", ![r].err = "SchemaError",
                                       ![r].con = TRUE, ![r].pre = raw]
               /\ anyFailed' = TRUE
          ELSE /\ proc' = [proc EXCEPT ![r].con = TRUE,
                                       ![r].pre = raw,
                                       ![r].pc = LoadBranch(proc[r].mode)]
               /\ UNCHANGED anyFailed
    /\ UNCHANGED <<now, files, raw, silver, gold, gate, started, writes, hist, run>>

\* duckdb.connect and CREATE SCHEMA when the invoker does not serialize the
\* calls: another load_to_duckdb call may hold a connection, and then the
\* store either refuses the second connection or the two calls' statements
\* interleave
ConnectUnserialized(r) ==
    /\ proc[r].pc = "connect"
    /\ \E connected \in BOOLEAN, schema_ok \in BOOLEAN :
          LET others == [q \in Procs |->
                            IF q # r /\ proc[q].con
                            THEN [proc[q] EXCEPT !.overlap = TRUE]
                            ELSE proc[q]]
          IN  IF ~connected
              THEN Raise(r, "ConnectError")
              ELSE IF ~schema_ok
              THEN /\ proc' = [others EXCEPT ![r].pc = "failed",
                                             ![r].err = "SchemaError",
                                             ![r].con = TRUE,
                                             ![r].pre = raw,
                                             ![r].overlap = ~StoreFree]
                   /\ anyFailed' = TRUE
              ELSE /\ proc' = [others EXCEPT ![r].con = TRUE,
                                             ![r].pre = raw,
                                             ![r].overlap = ~StoreFree,
                                             ![r].pc = LoadBranch(proc[r].mode)]
                   /\ UNCHANGED anyFailed
    /\ UNCHANGED <<now, files, raw, silver, gold, gate, started, writes, hist, run>>

\* mutant: the DROP statement leaves the table in place
DropTableKeeping(t) == t

\* DROP TABLE IF EXISTS raw.{table_name}
DropTable(t) == NoTable

\* mutant: the DROP statement cascades to the tables built from the RAW table
DropDependentsCascade(layer) == NoLayer

\* what the DROP statement does to a table of another layer: it names the one
\* RAW table and carries no CASCADE
DropDependents(layer) == layer

\* full_refresh: the DROP statement
Drop(r) ==
    /\ proc[r].pc = "drop"
    /\ raw' = DropTable(raw)
    /\ silver' = DropDependents(silver)
    /\ gold' = DropDependents(gold)
    /\ proc' = [proc EXCEPT ![r].pc = "create"]
    /\ UNCHANGED <<now, files, gate, started, writes, hist, anyFailed, run>>

\* mutant: the table is created without the snapshot's rows
CreateTableAsNoData(t, rows) == Table(<<>>)

\* CREATE TABLE raw.{table_name} AS SELECT * FROM read_parquet(path)
CreateTableAs(t, rows) == Table(rows)

\* mutant: the INSERT replaces the table's rows
InsertIntoReplacing(t, rows) == Table(rows)

\* mutant: the INSERT skips the rows the table already holds
InsertIntoDistinct(t, rows) ==
    Table(t.rows \o SelectSeq(rows, LAMBDA x : \A i \in 1..Len(t.rows) : t.rows[i] # x))

\* INSERT INTO raw.{table_name} SELECT * FROM read_parquet(path)
InsertInto(t, rows) == Table(t.rows \o rows)

\* mutant: after the incremental CREATE the INSERT runs as well
AfterCreateFallsThrough(mode) ==
    IF mode = "incremental" THEN "insert" ELSE "count"

\* the statement after a CREATE: both branches end at the final count
AfterCreate(mode) == "count"

\* mutant: the statement is CREATE OR REPLACE TABLE
CreateRejectedNever(t) == FALSE

\* CREATE TABLE, without OR REPLACE and without IF NOT EXISTS, is rejected
\* when the table exists
CreateRejected(t) == t.exists

\* a CREATE statement of process r: it fails when the snapshot cannot be
\* read or the store rejects it, and when the table already exists
CreateStep(r) ==
    \E loaded \in BOOLEAN :
        IF loaded /\ ~CreateRejected(raw)
        THEN /\ raw' = CreateTableAs(raw, files[proc[r].parquet_path].rows)
             /\ proc' = [proc EXCEPT ![r].pc = AfterCreate(proc[r].mode),
                                     ![r].snap = files[proc[r].parquet_path].rows,
                                     ![r].loads = @ + 1]
             /\ UNCHANGED anyFailed
        ELSE /\ Raise(r, "CreateError")
             /\ UNCHANGED raw

\* full_refresh: the CREATE statement after the DROP
FullRefreshCreate(r) ==
    /\ proc[r].pc = "create"
    /\ CreateStep(r)
    /\ UNCHANGED <<now, files, silver, gold, gate, started, writes, hist, run>>

\* incremental: the information_schema query
ExistsCheck(r) ==
    /\ proc[r].pc = "exists_check"
    /\ proc' = [proc EXCEPT ![r].table_exists = raw.exists,
                            ![r].pc = IF raw.exists THEN "insert" ELSE "inc_create"]
    /\ UNCHANGED <<now, files, raw, silver, gold, gate, started, writes, hist, anyFailed, run>>

\* incremental, table absent: the CREATE statement
IncrementalCreate(r) ==
    /\ proc[r].pc = "inc_create"
    /\ CreateStep(r)
    /\ UNCHANGED <<now, files, silver, gold, gate, started, writes, hist, run>>

\* incremental, table present: the INSERT statement
IncrementalInsert(r) ==
    /\ proc[r].pc = "insert"
    /\ \E loaded \in BOOLEAN :
          IF loaded /\ raw.exists
          THEN /\ raw' = InsertInto(raw, files[proc[r].parquet_path].rows)
               /\ proc' = [proc EXCEPT ![r].pc = "count",
                                       ![r].snap = files[proc[r].parquet_path].rows,
                                       ![r].loads = @ + 1]
               /\ UNCHANGED anyFailed
          ELSE /\ Raise(r, "InsertError")
               /\ UNCHANGED raw
    /\ UNCHANGED <<now, files, silver, gold, gate, started, writes, hist, run>>

\* SELECT COUNT(*), con.close() and the script's last line
CountAndClose(r) ==
    /\ proc[r].pc = "count"
    /\ IF raw.exists
       THEN /\ proc' = [proc EXCEPT ![r].count = Len(raw.rows),
                                    ![r].con = FALSE,
                                    ![r].pc = "done"]
            /\ hist' = Append(hist, <<proc[r].mode, Len(proc[r].snap)>>)
            /\ UNCHANGED anyFailed
       ELSE /\ Raise(r, "CountError")
            /\ UNCHANGED hist
    /\ UNCHANGED <<now, files, raw, silver, gold, gate, started, writes, run>>

\* the script's process ends (exit code 0 or an uncaught exception) and the
\* operating system releases what it held
ProcessExit(r) ==
    /\ proc[r].pc \in {"done", "failed"}
    /\ proc' = [proc EXCEPT ![r] = IdleProc]
    /\ UNCHANGED <<now, files, raw, silver, gold, gate, started, writes, hist, anyFailed, run>>

(* ------------------------- the transformation -------------------------- *)

\* dbt run: reads raw.*, writes silver.* and gold.*
DbtRun ==
    /\ IngestionExited
    /\ gate.pc = "idle"
    /\ StoreFree
    /\ raw.exists
    /\ \E s \in 0..MaxLayerRows, g \in 0..MaxLayerRows :
          /\ silver' = Layer(s)
          /\ gold' = Layer(g)
    /\ UNCHANGED <<now, files, raw, proc, gate, started, writes, hist, anyFailed, run>>

(* ------------------------ validate_data_quality ------------------------ *)

GateFail(e) ==
    gate' = [gate EXCEPT !.pc = "failed", !.err = e]

\* duckdb.connect(str(paths["duckdb_path"]))
GateConnect ==
    /\ gate.pc = "idle"
    /\ IngestionExited
    /\ StoreFree
    /\ \E connected \in BOOLEAN :
          IF connected
          THEN gate' = [gate EXCEPT !.pc = "count_raw", !.con = TRUE]
          ELSE GateFail("ConnectError")
    /\ UNCHANGED <<now, files, raw, silver, gold, proc, started, writes, hist, anyFailed, run>>

\* SELECT COUNT(*) FROM raw.raw_loans
GateCountRaw ==
    /\ gate.pc = "count_raw"
    /\ IF raw.exists
       THEN gate' = [gate EXCEPT !.pc = "count_silver", !.raw_count = Len(raw.rows)]
       ELSE GateFail("CatalogError")
    /\ UNCHANGED <<now, files, raw, silver, gold, proc, started, writes, hist, anyFailed, run>>

\* SELECT COUNT(*) FROM silver.silver_loans
GateCountSilver ==
    /\ gate.pc = "count_silver"
    /\ IF silver.exists
       THEN gate' = [gate EXCEPT !.pc = "count_gold", !.silver_count = silver.n]
       ELSE GateFail("CatalogError")
    /\ UNCHANGED <<now, files, raw, silver, gold, proc, started, writes, hist, anyFailed, run>>

\* SELECT COUNT(*) FROM gold.fact_loan
GateCountGold ==
    /\ gate.pc = "count_gold"
    /\ IF gold.exists
       THEN gate' = [gate EXCEPT !.pc = "check", !.gold_count = gold.n]
       ELSE GateFail("CatalogError")
    /\ UNCHANGED <<now, files, raw, silver, gold, proc, started, writes, hist, anyFailed, run>>

\* mutant: the GOLD check is left out
BasicValidationNoGold(raw_count, silver_count, gold_count) ==
    IF raw_count = 0 THEN "RAW layer is empty"
    ELSE IF silver_count = 0 THEN "SILVER layer is empty"
    ELSE None

\* mutant: the checks are made in the order GOLD, SILVER, RAW
BasicValidationGoldFirst(raw_count, silver_count, gold_count) ==
    IF gold_count = 0 THEN "GOLD layer is empty"
    ELSE IF silver_count = 0 THEN "SILVER layer is empty"
    ELSE IF raw_count = 0 THEN "RAW layer is empty"
    ELSE None

\* the three checks, in the order of the code: the exception raised, or None
BasicValidation(raw_count, silver_count, gold_count) ==
    IF raw_count = 0 THEN "RAW layer is empty"
    ELSE IF silver_count = 0 THEN "SILVER layer is empty"
    ELSE IF gold_count = 0 THEN "GOLD layer is empty"
    ELSE None

\* the basic validation and the return. con.close() is never called: on
\* return the connection object may or may not have been collected, and an
\* exception's traceback keeps it alive
GateCheck ==
    /\ gate.pc = "check"
    /\ LET e == BasicValidation(gate.raw_count, gate.silver_count, gate.gold_count)
       IN  IF e = None
           THEN \E collected \in BOOLEAN :
                    gate' = [gate EXCEPT !.pc = "done", !.con = ~collected]
           ELSE GateFail(e)
    /\ UNCHANGED <<now, files, raw, silver, gold, proc, started, writes, hist, anyFailed, run>>

\* the caller is done with the result; the connection object is collected
GateExit ==
    /\ gate.pc \in {"done", "failed"}
    /\ gate' = IdleGate
    /\ UNCHANGED <<now, files, raw, silver, gold, proc, started, writes, hist, anyFailed, run>>

(* ------------------------------ run_pipeline --------------------------- *)

\* the calls of run_pipeline's try block, in the order they are written
Steps ==
    <<"run_ingestion", "run_dbt_deps", "run_dbt_models", "run_dbt_tests",
      "validate_data_quality", "generate_dbt_docs">>

\* mutant: the pipeline ends with the quality checks
StepAfterGateLast(step) ==
    IF step = "validate_data_quality" THEN "success"
    ELSE IF \E i \in 1..(Len(Steps) - 1) : Steps[i] = step
    THEN Steps[(CHOOSE i \in 1..(Len(Steps) - 1) : Steps[i] = step) + 1]
    ELSE "success"

\* the statement after a call that returned: the next call, or the end of
\* the try block ("Pipeline completed successfully")
StepAfter(step) ==
    IF \E i \in 1..(Len(Steps) - 1) : Steps[i] = step
    THEN Steps[(CHOOSE i \in 1..(Len(Steps) - 1) : Steps[i] = step) + 1]
    ELSE "success"

\* mutant: the exception is logged and the next call is made
AfterFailureContinue(step) == StepAfter(step)

\* except Exception: print and sys.exit(1)
AfterFailure(step) == "failed"

\* default_args 'retries': 1, which no task of the DAG overrides: the number
\* of times the scheduler executes a failed task again
TaskRetries(task) == retries

\* the call of the current step has returned (ok) or raised; a failed task of
\* a DAG run that has retries left is executed again by the scheduler
Advance(ok) ==
    LET retry == ~ok /\ run.tries < run.retries
        next == IF ok THEN StepAfter(run.step)
                ELSE IF retry THEN run.step
                ELSE AfterFailure(run.step)
    IN  run' = [step |-> next,
                began |-> IF next \in {"success", "failed"} THEN run.began
                          ELSE Append(run.began, next),
                returned |-> IF ok THEN Append(run.returned, run.step)
                             ELSE run.returned,
                failed_at |-> IF ok THEN run.failed_at ELSE run.step,
                retries |-> run.retries,
                tries |-> IF retry THEN run.tries + 1 ELSE 0]

\* run_pipeline is called: step 1 begins
RunPipeline ==
    /\ run.step \in {"idle", "success", "failed"}
    /\ started < MaxRuns
    /\ run' = [step |-> Steps[1], began |-> <<Steps[1]>>, returned |-> <<>>,
               failed_at |-> None, retries |-> 0, tries |-> 0]
    /\ UNCHANGED <<now, files, raw, silver, gold, proc, gate, started, writes, hist, anyFailed>>

\* the scheduler starts a run of the DAG: ingest_task begins, and the tasks
\* follow in the order of the dependency chain, the order of Steps
DagRun ==
    /\ run.step \in {"idle", "success", "failed"}
    /\ started < MaxRuns
    /\ run' = [step |-> Steps[1], began |-> <<Steps[1]>>, returned |-> <<>>,
               failed_at |-> None, retries |-> TaskRetries(Steps[1]), tries |-> 0]
    /\ UNCHANGED <<now, files, raw, silver, gold, proc, gate, started, writes, hist, anyFailed>>

\* step 1: the ingestion script runs as run_ingestion's subprocess
PipelineIngestion ==
    /\ run.step = "run_ingestion"
    /\ \/ StartIngestion(Pipeline)
       \/ WriteParquet(Pipeline)
       \/ UploadToS3(Pipeline)
       \/ Connect(Pipeline)
       \/ Drop(Pipeline)
       \/ FullRefreshCreate(Pipeline)
       \/ ExistsCheck(Pipeline)
       \/ IncrementalCreate(Pipeline)
       \/ IncrementalInsert(Pipeline)
       \/ CountAndClose(Pipeline)

\* mutant: the script catches its exceptions and exits with status 0
returncodeAlwaysZero(p) == 0

\* the exit status of the script's process: 0 when the last line was reached,
\* 1 for an uncaught exception, 2 for the error of parse_args
returncode(p) ==
    IF p.pc = "done" THEN 0
    ELSE IF p.err = "SystemExit" THEN 2
    ELSE 1

\* the exit status of run_pipeline's process: sys.exit(1) in the except
\* clause, 0 when the function returns
exit_status(step) ==
    IF step = "failed" THEN 1 ELSE 0

\* mutant: subprocess.run without check=True, a nonzero status is not raised
CalledProcessErrorNever(status) == FALSE

\* subprocess.run(..., check=True) raises CalledProcessError for a nonzero
\* exit status
CalledProcessError(status) == status # 0

\* subprocess.run(..., check=True) returns, or raises CalledProcessError
\* when the script exited with a nonzero status
IngestionReturns ==
    /\ run.step = "run_ingestion"
    /\ proc[Pipeline].pc \in {"done", "failed"}
    /\ proc' = [proc EXCEPT ![Pipeline] = IdleProc]
    /\ Advance(~CalledProcessError(returncode(proc[Pipeline])))
    /\ UNCHANGED <<now, files, raw, silver, gold, gate, started, writes, hist, anyFailed>>

\* step 2, run_dbt_deps: dbt deps succeeds or fails
RunDbtDeps ==
    /\ run.step = "run_dbt_deps"
    /\ \E ok \in BOOLEAN : Advance(ok)
    /\ UNCHANGED <<now, files, raw, silver, gold, proc, gate, started, writes, hist, anyFailed>>

\* step 3, run_dbt_models: dbt run builds silver.* and gold.* from raw.*, or
\* fails
RunDbtModels ==
    /\ run.step = "run_dbt_models"
    /\ \E ok \in BOOLEAN, s \in 0..MaxLayerRows, g \in 0..MaxLayerRows :
          IF ok /\ raw.exists
          THEN /\ silver' = Layer(s)
               /\ gold' = Layer(g)
               /\ Advance(TRUE)
          ELSE /\ UNCHANGED <<silver, gold>>
               /\ Advance(FALSE)
    /\ UNCHANGED <<now, files, raw, proc, gate, started, writes, hist, anyFailed>>

\* step 4, run_dbt_tests: dbt test succeeds or fails
RunDbtTests ==
    /\ run.step = "run_dbt_tests"
    /\ \E ok \in BOOLEAN : Advance(ok)
    /\ UNCHANGED <<now, files, raw, silver, gold, proc, gate, started, writes, hist, anyFailed>>

\* step 5: the statements of validate_data_quality
PipelineGate ==
    /\ run.step = "validate_data_quality"
    /\ \/ GateConnect
       \/ GateCountRaw
       \/ GateCountSilver
       \/ GateCountGold
       \/ GateCheck

\* validate_data_quality returns True or raises
GateReturns ==
    /\ run.step = "validate_data_quality"
    /\ gate.pc \in {"done", "failed"}
    /\ gate' = IdleGate
    /\ Advance(gate.pc = "done")
    /\ UNCHANGED <<now, files, raw, silver, gold, proc, started, writes, hist, anyFailed>>

\* step 6, generate_dbt_docs: dbt docs generate succeeds or fails
GenerateDbtDocs ==
    /\ run.step = "generate_dbt_docs"
    /\ \E ok \in BOOLEAN : Advance(ok)
    /\ UNCHANGED <<now, files, raw, silver, gold, proc, gate, started, writes, hist, anyFailed>>

(* --------------------------- the specifications ------------------------ *)

\* one step of ingestion process r
Ingestion(r) ==
    \/ StartIngestion(r)
    \/ WriteParquet(r)
    \/ UploadToS3(r)
    \/ Connect(r)
    \/ Drop(r)
    \/ FullRefreshCreate(r)
    \/ ExistsCheck(r)
    \/ IncrementalCreate(r)
    \/ IncrementalInsert(r)
    \/ CountAndClose(r)
    \/ ProcessExit(r)

\* the ingestion runs of one pipeline, one after the other
Next ==
    \/ Tick
    \/ Ingestion(Pipeline)

Spec == Init /\ [][Next]_vars

\* ingestion runs of two pipelines (a scheduled and a manual trigger) in flight
NextConc ==
    \/ Tick
    \/ \E r \in Procs : Ingestion(r)

SpecConc == Init /\ [][NextConc]_vars

\* one step of ingestion process r when nothing serializes the loads
IngestionUnserialized(r) ==
    \/ StartIngestion(r)
    \/ WriteParquet(r)
    \/ UploadToS3(r)
    \/ ConnectUnserialized(r)
    \/ Drop(r)
    \/ FullRefreshCreate(r)
    \/ ExistsCheck(r)
    \/ IncrementalCreate(r)
    \/ IncrementalInsert(r)
    \/ CountAndClose(r)
    \/ ProcessExit(r)

\* ingestion runs of two pipelines whose loads are not serialized
NextRace == \E r \in Procs : IngestionUnserialized(r)

SpecRace == Init /\ [][NextRace]_vars

\* one pipeline: ingestion, then the transformation, then the quality gate
NextGate ==
    \/ Ingestion(Pipeline)
    \/ DbtRun
    \/ GateConnect
    \/ GateCountRaw
    \/ GateCountSilver
    \/ GateCountGold
    \/ GateCheck
    \/ GateExit

SpecGate == Init /\ [][NextGate]_vars

\* run_pipeline, called again after it has ended
NextPipeline ==
    \/ RunPipeline
    \/ PipelineIngestion
    \/ IngestionReturns
    \/ RunDbtDeps
    \/ RunDbtModels
    \/ RunDbtTests
    \/ PipelineGate
    \/ GateReturns
    \/ GenerateDbtDocs

SpecPipeline == Init /\ [][NextPipeline]_vars

\* runs of the DAG loan_data_pipeline under the scheduler
NextDag ==
    \/ DagRun
    \/ PipelineIngestion
    \/ IngestionReturns
    \/ RunDbtDeps
    \/ RunDbtModels
    \/ RunDbtTests
    \/ PipelineGate
    \/ GateReturns
    \/ GenerateDbtDocs

SpecDag == Init /\ [][NextDag]_vars

(* ------------------------------- the claims ---------------------------- *)

\* the rows of the snapshot file process r wrote, as it is on disk now
Snapshot(r) == files[proc[r].parquet_path].rows

\* the last n elements of a sequence
Suffix(sq, n) == SubSeq(sq, Len(sq) - n + 1, Len(sq))

\* C1 (as claimed): when a full_refresh load of an existing RAW table fails
\* in its CREATE statement, the table still exists with the row count it had
\* before the call.
C1_FailureLeavesTable ==
    \A r \in Procs :
        ( /\ proc[r].pc = "failed"
          /\ proc[r].err = "CreateError"
          /\ proc[r].mode = "full_refresh"
          /\ proc[r].pre.exists )
        => /\ raw.exists
           /\ Len(raw.rows) = Len(proc[r].pre.rows)

\* the row count the decision table of load_to_duckdb prescribes
Prescribed(mode, pre, n) ==
    IF mode = "full_refresh" THEN n
    ELSE IF ~pre.exists THEN n
    ELSE Len(pre.rows) + n

\* C2: after a successful load_to_duckdb the RAW table exists and its row
\* count, also the count the call reports, is the one the decision table
\* prescribes for (table existed before?, mode): the snapshot's row count for
\* full_refresh and for incremental on an absent table, the previous count plus
\* the snapshot's row count for incremental on an existing table.
C2_DecisionTable ==
    \A r \in Procs :
        proc[r].pc = "done"
        => /\ raw.exists
           /\ Len(raw.rows) = Prescribed(proc[r].mode, proc[r].pre, Len(Snapshot(r)))
           /\ proc[r].count = Len(raw.rows)

\* C2 witness: an incremental load onto an existing, non-empty table has
\* returned, having appended a non-empty snapshot.
C2_Witness ==
    \E r \in Procs :
        /\ proc[r].pc = "done"
        /\ proc[r].mode = "incremental"
        /\ proc[r].pre.exists
        /\ Len(proc[r].pre.rows) > 0
        /\ Len(Snapshot(r)) > 0

\* C3: once the CREATE of a full_refresh load has succeeded, the RAW table
\* holds exactly the rows of that run's snapshot, whatever the table held
\* before; loading the same data a second time leaves one run's row count.
C3_FullRefreshReplaces ==
    \A r \in Procs :
        ( /\ proc[r].mode = "full_refresh"
          /\ proc[r].pc \in {"count", "done"} )
        => /\ raw = Table(Snapshot(r))
           /\ (proc[r].pre.rows = Snapshot(r) => Len(raw.rows) = Len(proc[r].pre.rows))

\* C3 witness: a second full_refresh run of the same, non-empty data has
\* finished right after a first one.
C3_Witness ==
    \E r \in Procs :
        /\ proc[r].pc = "done"
        /\ proc[r].mode = "full_refresh"
        /\ Len(hist) = 2
        /\ hist[1][1] = "full_refresh"
        /\ proc[r].pre = Table(Snapshot(r))
        /\ Len(Snapshot(r)) > 0
        /\ Len(raw.rows) = Len(Snapshot(r))

RECURSIVE SumRows(_)
\* the sum of the row counts of a sequence of runs
SumRows(h) ==
    IF h = <<>> THEN 0 ELSE Head(h)[2] + SumRows(Tail(h))

RECURSIVE SinceLastFullRefresh(_)
\* the runs since and including the most recent full_refresh run, or all of
\* them when there was none
SinceLastFullRefresh(h) ==
    IF h = <<>> THEN <<>>
    ELSE IF h[Len(h)][1] = "full_refresh" THEN <<h[Len(h)]>>
    ELSE Append(SinceLastFullRefresh(SubSeq(h, 1, Len(h) - 1)), h[Len(h)])

\* no load_to_duckdb call is between its first statement and its return
NoLoadInFlight ==
    \A r \in Procs :
        proc[r].pc \in {"idle", "write_parquet", "upload_to_s3", "connect", "done"}

\* C4: while every ingestion run so far has succeeded, and between loads, the
\* RAW table exists exactly when some run has finished and its row count is
\* the sum of the snapshot row counts of the runs since and including the most
\* recent full_refresh run (of all runs when there was none); an incremental
\* run keeps the rows that were there, in place.
C4_Accumulation ==
    /\ (~anyFailed /\ NoLoadInFlight)
       => /\ raw.exists <=> hist # <<>>
          /\ Len(raw.rows) = SumRows(SinceLastFullRefresh(hist))
    /\ \A r \in Procs :
          ( /\ proc[r].pc = "done"
            /\ proc[r].mode = "incremental"
            /\ proc[r].pre.exists )
          => /\ Len(raw.rows) >= Len(proc[r].pre.rows)
             /\ SubSeq(raw.rows, 1, Len(proc[r].pre.rows)) = proc[r].pre.rows

\* C4 witness: two incremental runs, each of a non-empty source, have
\* succeeded and nothing has failed.
C4_Witness ==
    /\ ~anyFailed
    /\ NoLoadInFlight
    /\ Len(hist) = 2
    /\ hist[1][1] = "incremental" /\ hist[1][2] > 0
    /\ hist[2][1] = "incremental" /\ hist[2][2] > 0
    /\ Len(raw.rows) = hist[1][2] + hist[2][2]

\* the table process r found already ends with the rows of r's snapshot: an
\* earlier run loaded the same source
IsRetry(r) ==
    /\ proc[r].pre.exists
    /\ Len(Snapshot(r)) > 0
    /\ Len(proc[r].pre.rows) >= Len(Snapshot(r))
    /\ Suffix(proc[r].pre.rows, Len(Snapshot(r))) = Snapshot(r)

WriteStep(r) ==
    /\ proc[r].pc = "write_parquet"
    /\ proc'[r].pc # "write_parquet"

\* C6 (as claimed): no two invocations produce the same file name, so every
\* invocation so far has a file of its own and none was overwritten.
C6_NeverSameName ==
    /\ Cardinality(DOMAIN files) = writes
    /\ \A r1, r2 \in Procs :
          ( /\ r1 # r2
            /\ proc[r1].parquet_path # <<>>
            /\ proc[r2].parquet_path # <<>> )
          => proc[r1].parquet_path # proc[r2].parquet_path

\* C6 (amended): every invocation writes exactly one file, the one it names,
\* and leaves all others as they are; the name it draws is that of a file
\* already written exactly when table, mode, second and the 8-hex suffix are
\* all those of that file, so an invocation whose suffix differs from those
\* drawn for its table and mode in its second overwrites nothing.
C6_UniqueUpToSuffix ==
    [][ \A r \in Procs :
          WriteStep(r)
          => LET p == proc'[r].parquet_path
             IN  /\ DOMAIN files' = DOMAIN files \cup {p}
                 /\ files'[p] = proc[r].df
                 /\ \A n \in DOMAIN files \ {p} : files'[n] = files[n]
                 /\ p \in DOMAIN files
                    <=> \E n \in DOMAIN files :
                           /\ n[1] = table_name
                           /\ n[2] = proc[r].mode
                           /\ n[3] = proc'[r].timestamp
                           /\ n[4] = proc'[r].hex
                 /\ \A q \in Procs \ {r} :
                       ( /\ proc[q].parquet_path # <<>>
                         /\ proc[q].hex # proc'[r].hex )
                       => proc[q].parquet_path # p
      ]_vars

\* C6 witness: two invocations for the same table and mode in the same second
\* have drawn different suffixes, and each has its own file.
C6_Witness ==
    \E r1, r2 \in Procs :
        /\ r1 # r2
        /\ proc[r1].pc \in {"upload_to_s3", "connect"}
        /\ proc[r2].pc \in {"upload_to_s3", "connect"}
        /\ proc[r1].mode = proc[r2].mode
        /\ proc[r1].timestamp = proc[r2].timestamp
        /\ proc[r1].hex # proc[r2].hex
        /\ proc[r1].parquet_path # proc[r2].parquet_path
        /\ {proc[r1].parquet_path, proc[r2].parquet_path} \subseteq DOMAIN files
        /\ writes = 2

\* C7 (as claimed): every run that has written its snapshot and has ended has
\* loaded that snapshot into the RAW table exactly once.
C7_EveryRunLoadsOnce ==
    \A r \in Procs :
        ( /\ proc[r].pc \in {"done", "failed"}
          /\ proc[r].parquet_path # <<>> )
        => proc[r].loads = 1

\* C7 (amended): no run loads its snapshot more than once; a run that ends
\* successfully has loaded it exactly once; a run loads only a snapshot it
\* has written, and a run that fails in the mirror upload, in the connection
\* or in its CREATE or INSERT statement has loaded it zero times.
C7_LoadedAtMostOnce ==
    \A r \in Procs :
        /\ proc[r].loads <= 1
        /\ proc[r].pc = "done" => proc[r].loads = 1
        /\ proc[r].loads = 1 => proc[r].parquet_path \in DOMAIN files
        /\ ( /\ proc[r].pc = "failed"
             /\ proc[r].err \in {"RuntimeError", "ValueError", "S3UploadFailedError",
                                  "ConnectError", "SchemaError", "CreateError",
                                  "InsertError"} )
           => proc[r].loads = 0

\* C7 witness: a run that mirrored its snapshot and created the table from it
\* in incremental mode has ended, having loaded the snapshot once.
C7_Witness ==
    \E r \in Procs :
        /\ proc[r].pc = "done"
        /\ proc[r].mode = "incremental"
        /\ ~proc[r].pre.exists
        /\ proc[r].uploaded
        /\ proc[r].loads = 1

\* C8 (as claimed): no step removes a snapshot file or changes the content of
\* one.
C8_NeverRewritten ==
    [][ \A n \in DOMAIN files :
          /\ n \in DOMAIN files'
          /\ files'[n] = files[n]
      ]_vars

\* C8 (amended): no step removes a snapshot file, so the set of snapshot
\* files only grows; the content of an existing file changes only in a
\* write_parquet_with_metadata step that draws that file's name again, and no
\* step of the mirror upload or of load_to_duckdb changes the directory.
C8_AppendOnly ==
    [][ /\ \A n \in DOMAIN files :
             /\ n \in DOMAIN files'
             /\ files'[n] # files[n]
                => \E r \in Procs : WriteStep(r) /\ proc'[r].parquet_path = n
        /\ (\A r \in Procs : ~WriteStep(r)) => files' = files
      ]_vars

\* C8 witness: after a failed run and a successful run the directory holds the
\* snapshot files of both.
C8_Witness ==
    /\ Cardinality(DOMAIN files) = 2
    /\ anyFailed
    /\ Len(hist) = 1
    /\ writes = 2

\* a layer's table is missing or holds fewer rows than its minimum
BelowMinimum(exists, n, minimum) == ~exists \/ n < minimum

SomeLayerBelowMinimum ==
    \/ BelowMinimum(raw.exists, Len(raw.rows), min_raw_rows)
    \/ BelowMinimum(silver.exists, silver.n, min_silver_rows)
    \/ BelowMinimum(gold.exists, gold.n, min_gold_rows)

\* C9 (as claimed): validate_data_quality fails exactly when some layer's row
\* count is below its minimum (a missing table counted as below), and returns
\* success exactly when all three meet their minimum.
C9_FailsIffBelowMinimum ==
    /\ gate.pc = "failed" => SomeLayerBelowMinimum
    /\ gate.pc = "done" => ~SomeLayerBelowMinimum

\* C9 (amended): validate_data_quality returns success only when all three
\* tables exist and meet their minimum; once it has connected and counted the
\* three tables it fails exactly when some count is below its minimum, naming
\* the first such layer in the order RAW, SILVER, GOLD; it fails as well when
\* the store cannot be opened or one of the tables is missing.
C9_Gate ==
    /\ gate.pc = "done" => ~SomeLayerBelowMinimum
    /\ gate.pc = "failed"
       => \/ gate.err = "ConnectError"
          \/ gate.err = "CatalogError" /\ (~raw.exists \/ ~silver.exists \/ ~gold.exists)
          \/ /\ raw.exists /\ silver.exists /\ gold.exists
             /\ SomeLayerBelowMinimum
             /\ gate.err = "RAW layer is empty" <=> Len(raw.rows) < min_raw_rows
             /\ gate.err = "SILVER layer is empty"
                <=> (Len(raw.rows) >= min_raw_rows /\ silver.n < min_silver_rows)
             /\ gate.err = "GOLD layer is empty"
                <=> ( /\ Len(raw.rows) >= min_raw_rows
                      /\ silver.n >= min_silver_rows
                      /\ gold.n < min_gold_rows )

\* C9 witness: with RAW empty and SILVER and GOLD non-empty the gate has
\* failed naming the RAW layer.
C9_Witness ==
    /\ gate.pc = "failed"
    /\ gate.err = "RAW layer is empty"
    /\ raw.exists /\ Len(raw.rows) = 0
    /\ silver.exists /\ silver.n >= min_silver_rows
    /\ gold.exists /\ gold.n >= min_gold_rows

\* C10 (as claimed): when load_to_duckdb or validate_data_quality has exited,
\* by return or by exception, the connection it opened is closed.
C10_ConnectionsReleased ==
    /\ \A r \in Procs : proc[r].pc \in {"done", "failed"} => ~proc[r].con
    /\ gate.pc \in {"done", "failed"} => ~gate.con

\* load_excel_files has returned a frame to process r; the arguments of the
\* call are still at hand
Loaded(r) == proc[r].pc = "write_parquet"

\* the script of process r has passed parse_args and failed in step 1
FailedLoading(r) ==
    /\ proc[r].pc = "failed"
    /\ proc[r].parquet_path = <<>>
    /\ proc[r].err \in {"FileNotFoundError", "ValueError"}

\* the _source_file column of a frame, row by row
SourceColumn(df) ==
    [i \in 1..Len(df.rows) |-> df.rows[i]["_source_file"]]

RECURSIVE RowSources(_)
\* for a sequence of spreadsheets, the file each row of their concatenation
\* comes from
RowSources(fs) ==
    IF fs = <<>> THEN <<>>
    ELSE [k \in 1..ExcelRows[Head(fs)] |-> Head(fs)] \o RowSources(Tail(fs))

\* the files a directory and a pattern (default: *.xlsx, then *.xls) select
Matched(excel_dir, excel_pattern) ==
    IF excel_dir \notin DOMAIN DirListing THEN <<>>
    ELSE IF excel_pattern = None
    THEN SelectSeq(DirListing[excel_dir], LAMBDA f : GlobMatch("*.xlsx", f))
         \o SelectSeq(DirListing[excel_dir], LAMBDA f : GlobMatch("*.xls", f))
    ELSE SelectSeq(DirListing[excel_dir], LAMBDA f : GlobMatch(excel_pattern, f))

\* both a single path and a directory were passed
BothGiven(r) ==
    /\ proc[r].args.excel # None
    /\ proc[r].args.excel_dir # None

\* C11 (as claimed): when both a single source path and a source directory
\* are given, the rows loaded are those of the files matched in the directory.
C11_DirectoryPrecedence ==
    \A r \in Procs :
        (Loaded(r) /\ BothGiven(r))
        => SourceColumn(proc[r].df)
              = RowSources(Matched(proc[r].args.excel_dir, proc[r].args.excel_pattern))

\* C11 (amended): when both a single source path and a source directory are
\* given, load_excel_files behaves as single-path mode: the rows loaded are
\* those of the single path and the directory is not looked at, and when the
\* path does not exist the call fails, whatever the directory holds.
C11_SinglePathPrecedence ==
    \A r \in Procs :
        /\ (Loaded(r) /\ BothGiven(r))
           => /\ SourceColumn(proc[r].df) = RowSources(<<proc[r].args.excel>>)
              /\ proc[r].df.columns = ExcelColumns[proc[r].args.excel] \cup Provenance
        /\ (FailedLoading(r) /\ BothGiven(r))
           => /\ proc[r].err = "FileNotFoundError"
              /\ proc[r].args.excel \notin DOMAIN ExcelRows

\* C11 witness: a.xlsx and the directory data, which holds two more files
\* with rows, were both given, and the frame has the one row of a.xlsx.
C11_Witness ==
    \E r \in Procs :
        /\ Loaded(r)
        /\ proc[r].args.excel = "a.xlsx"
        /\ proc[r].args.excel_dir = "data"
        /\ proc[r].args.excel_pattern = None
        /\ Len(Matched("data", None)) = 3
        /\ Len(proc[r].df.rows) = 1

\* the arguments the script of process r was started with are at hand: it is
\* at step 2 or has failed before it
ArgsKnown(r) ==
    \/ proc[r].pc = "write_parquet"
    \/ proc[r].pc = "failed" /\ proc[r].parquet_path = <<>>

\* neither a single path nor a directory was passed
NeitherGiven(r) ==
    /\ ArgsKnown(r)
    /\ proc[r].args.excel = None
    /\ proc[r].args.excel_dir = None

\* C12: a run that is given neither a single source path nor a source
\* directory fails with the configuration error of load_excel_files
\* (ValueError; the error of parse_args when --mode is invalid as well), and
\* it does not go on: it writes no snapshot, opens no connection, loads
\* nothing, and no step of it changes the snapshot directory or the RAW table.
C12_NeitherFails ==
    [][ \A r \in Procs :
          /\ NeitherGiven(r)'
             => /\ proc'[r].pc = "failed"
                /\ proc'[r].err = IF ParseMode(proc'[r].args.mode) \in Modes
                                  THEN "ValueError" ELSE "SystemExit"
                /\ proc'[r].parquet_path = <<>>
                /\ proc'[r].loads = 0
                /\ ~proc'[r].con
                /\ files' = files
                /\ raw' = raw
          /\ NeitherGiven(r)
             => /\ proc'[r].pc \in {"failed", "idle"}
                /\ files' = files
                /\ raw' = raw
      ]_vars

\* C12 witness: an incremental run started without --excel and --excel_dir
\* has failed with ValueError, while the RAW table exists.
C12_Witness ==
    \E r \in Procs :
        /\ NeitherGiven(r)
        /\ proc[r].args.mode = "incremental"
        /\ proc[r].pc = "failed"
        /\ proc[r].err = "ValueError"
        /\ raw.exists

\* the script of process r has passed the invoker's checks and parse_args
PassedParse(r) ==
    /\ ArgsKnown(r)
    /\ ~(proc[r].pc = "failed" /\ proc[r].err = "SystemExit")

\* C13: load_excel_files fails with FileNotFoundError when a single path is
\* given and does not exist, and when only a directory is given and it does
\* not exist or its pattern (default: *.xlsx and *.xls) matches no file; a
\* frame it returns was read from at least one existing source and has the
\* columns of a source, never none.
C13_SourceNotFound ==
    \A r \in Procs :
        PassedParse(r)
        => LET a == proc[r].args
           IN  /\ (a.excel # None /\ a.excel \notin DOMAIN ExcelRows)
                  => proc[r].pc = "failed" /\ proc[r].err = "FileNotFoundError"
               /\ ( /\ a.excel = None
                    /\ a.excel_dir # None
                    /\ \/ a.excel_dir \notin DOMAIN DirListing
                       \/ Matched(a.excel_dir, a.excel_pattern) = <<>> )
                  => proc[r].pc = "failed" /\ proc[r].err = "FileNotFoundError"
               /\ Loaded(r)
                  => /\ \/ a.excel \in DOMAIN ExcelRows
                        \/ a.excel = None /\ Matched(a.excel_dir, a.excel_pattern) # <<>>
                     /\ proc[r].df # EmptyFrame
                     /\ Provenance \subseteq proc[r].df.columns

\* C13 witness: a run on an existing directory with a pattern that matches
\* none of its files has failed with FileNotFoundError.
C13_Witness ==
    \E r \in Procs :
        /\ PassedParse(r)
        /\ proc[r].args.excel = None
        /\ proc[r].args.excel_dir = "data"
        /\ proc[r].args.excel_pattern = "z*"
        /\ Len(DirListing["data"]) > 0
        /\ proc[r].pc = "failed"
        /\ proc[r].err = "FileNotFoundError"

\* the spreadsheets the call of process r is to read, in discovery order
Sources(r) ==
    IF proc[r].args.excel # None THEN <<proc[r].args.excel>>
    ELSE Matched(proc[r].args.excel_dir, proc[r].args.excel_pattern)

RECURSIVE RowTotal(_)
\* the sum of the row counts of a sequence of spreadsheets
RowTotal(fs) ==
    IF fs = <<>> THEN 0 ELSE ExcelRows[Head(fs)] + RowTotal(Tail(fs))

RECURSIVE RowKeys(_)
\* the rows of a sequence of spreadsheets, file after file and within a file
\* in the file's order, each as <<file, row number>>
RowKeys(fs) ==
    IF fs = <<>> THEN <<>>
    ELSE [k \in 1..ExcelRows[Head(fs)] |-> <<Head(fs), k>>] \o RowKeys(Tail(fs))

\* C14: the frame load_excel_files returns, for a single file and for a
\* directory of several files some of which lack columns, has as many rows as
\* the files read have together; the rows are in each file's order within the
\* order the files were discovered; every row's _source_file is the name of
\* the file it came from and its _ingestion_timestamp is a time, none is null.
C14_RowsAndProvenance ==
    \A r \in Procs :
        Loaded(r)
        => LET df == proc[r].df
           IN  /\ Len(df.rows) = RowTotal(Sources(r))
               /\ [i \in 1..Len(df.rows) |-> df.rows[i]["Loan_ID"]] = RowKeys(Sources(r))
               /\ SourceColumn(df) = RowSources(Sources(r))
               /\ \A i \in 1..Len(df.rows) :
                     /\ df.rows[i]["_source_file"] \in DOMAIN ExcelRows
                     /\ df.rows[i]["_source_file"] = df.rows[i]["Loan_ID"][1]
                     /\ df.rows[i]["_ingestion_timestamp"] \in 0..MaxClock
                     /\ df.rows[i]["_ingestion_timestamp"] <= now

\* C14 witness: the directory of three files, one of them without the
\* Purpose column and one without rows, was read into a frame of three rows.
C14_Witness ==
    \E r \in Procs :
        /\ Loaded(r)
        /\ proc[r].args.excel = None
        /\ proc[r].args.excel_dir = "data"
        /\ proc[r].args.excel_pattern = None
        /\ Len(Sources(r)) = 3
        /\ \E f \in DOMAIN ExcelColumns : "Purpose" \notin ExcelColumns[f]
        /\ Len(proc[r].df.rows) = 3

\* the rows of a table or frame whose Purpose cell is null
NullPurpose(rows) ==
    {i \in 1..Len(rows) : "Purpose" \in DOMAIN rows[i] /\ rows[i]["Purpose"] = NaN}

RECURSIVE RowTotalOf(_)
\* the sum of the row counts of a set of spreadsheets
RowTotalOf(S) ==
    IF S = {} THEN 0
    ELSE LET f == CHOOSE x \in S : TRUE
         IN  ExcelRows[f] + RowTotalOf(S \ {f})

\* C15: in directory mode the frame's columns are the union of the columns of
\* all files read (and the two provenance columns), every row has a cell for
\* every column, and a cell is null exactly when its column is absent from
\* the file the row came from; an incremental run on an absent table leaves
\* exactly these rows in the RAW table, so the null Purpose entries are the
\* rows of the files without a Purpose column, as many as those files have.
C15_ColumnUnion ==
    \A r \in Procs :
        /\ (Loaded(r) /\ proc[r].args.excel = None)
           => LET df == proc[r].df
                  fs == Sources(r)
              IN  /\ df.columns = UNION {ExcelColumns[fs[i]] : i \in 1..Len(fs)}
                                     \cup Provenance
                  /\ \A i \in 1..Len(df.rows) :
                        /\ DOMAIN df.rows[i] = df.columns
                        /\ \A c \in df.columns \ Provenance :
                              df.rows[i][c] = NaN
                              <=> c \notin ExcelColumns[df.rows[i]["_source_file"]]
        /\ ( /\ proc[r].pc = "done"
             /\ proc[r].mode = "incremental"
             /\ ~proc[r].pre.exists )
           => /\ raw.rows = Snapshot(r)
              /\ \A i \in 1..Len(raw.rows) :
                    "Purpose" \in DOMAIN raw.rows[i]
                    => ( raw.rows[i]["Purpose"] = NaN
                         <=> "Purpose" \notin ExcelColumns[raw.rows[i]["_source_file"]] )
              /\ (\E i \in 1..Len(raw.rows) : "Purpose" \in DOMAIN raw.rows[i])
                 => Cardinality(NullPurpose(raw.rows))
                       = RowTotalOf({f \in {raw.rows[i]["_source_file"] : i \in 1..Len(raw.rows)} :
                                        "Purpose" \notin ExcelColumns[f]})

\* C15 witness: an incremental run on an absent table has loaded the
\* directory whose file a.xlsx has one row and whose file b.xls has two rows
\* and no Purpose column: the RAW table has three rows, exactly two of them
\* with a null Purpose, both from b.xls.
C15_Witness ==
    \E r \in Procs :
        /\ proc[r].pc = "done"
        /\ proc[r].mode = "incremental"
        /\ ~proc[r].pre.exists
        /\ Len(raw.rows) = ExcelRows["a.xlsx"] + ExcelRows["b.xls"]
        /\ Len(raw.rows) = 3
        /\ Cardinality(NullPurpose(raw.rows)) = 2
        /\ \A i \in NullPurpose(raw.rows) : raw.rows[i]["_source_file"] = "b.xls"

\* C16 (as claimed): a run invoked without --mode, or with a value other than
\* full_refresh and incremental, fails before step 2: it never gets to write
\* a snapshot.
C16_ModeRequired ==
    \A r \in Procs :
        (ArgsKnown(r) /\ proc[r].args.mode \notin Modes)
        => proc[r].pc = "failed"

\* C16 (amended): --mode is optional and accepts only full_refresh and
\* incremental: a run invoked without it runs as full_refresh, a run invoked
\* with one of the two values runs in that mode, and a run invoked with any
\* other value ends in the error of parse_args before anything is read: it
\* writes no snapshot, opens no connection, and no step of it changes the
\* snapshot directory or the RAW table.
C16_ModeDefault ==
    [][ \A r \in Procs :
          /\ (ArgsKnown(r)' /\ proc'[r].args.mode \notin Modes \cup {None})
             => /\ proc'[r].pc = "failed"
                /\ proc'[r].err = "SystemExit"
                /\ proc'[r].parquet_path = <<>>
                /\ proc'[r].loads = 0
                /\ ~proc'[r].con
                /\ files' = files
                /\ raw' = raw
          /\ (ArgsKnown(r) /\ proc[r].args.mode \notin Modes \cup {None})
             => /\ proc'[r].pc \in {"failed", "idle"}
                /\ files' = files
                /\ raw' = raw
          /\ (Loaded(r)' /\ proc'[r].args.mode = None)
             => proc'[r].mode = "full_refresh"
          /\ (Loaded(r)' /\ proc'[r].args.mode \in Modes)
             => proc'[r].mode = proc'[r].args.mode
          /\ (proc[r].pc = "write_parquet" /\ proc'[r].pc # "write_parquet")
             => /\ proc'[r].mode = proc[r].mode
                /\ proc'[r].parquet_path[2] = proc[r].mode
      ]_vars

\* C16 witness: a run invoked without --mode on an existing RAW table has
\* loaded its source and goes on as full_refresh.
C16_Witness ==
    \E r \in Procs :
        /\ Loaded(r)
        /\ proc[r].args.mode = None
        /\ proc[r].mode = "full_refresh"
        /\ raw.exists

\* C17 (as claimed): a run for which publishing to the remote store was
\* requested (--prod, or ENVIRONMENT = production for run_ingestion) while no
\* bucket could be resolved never completes successfully; a run for which
\* publishing was requested completes only after it has mirrored its snapshot.
C17_NoSilentSkip ==
    \A r \in Procs :
        /\ (proc[r].publish /\ proc[r].s3_bucket = "") => proc[r].pc # "done"
        /\ (proc[r].publish /\ proc[r].pc = "done") => proc[r].uploaded

\* the exceptions of upload_to_s3: no client library, no bucket, failed copy
UploadErrors == {"RuntimeError", "ValueError", "S3UploadFailedError"}

\* the script of process r is past step 3
PastUpload(r) ==
    proc[r].pc \in {"connect", "drop", "create", "exists_check", "inc_create",
                    "insert", "count", "done"}

\* process r takes its upload_to_s3 step
UploadStep(r) ==
    /\ proc[r].pc = "upload_to_s3"
    /\ proc'[r] # proc[r]

\* C18: the mirror step changes nothing in the snapshot directory and either
\* succeeds or ends the run with its exception; a run started with --prod
\* gets past step 3 only with its snapshot mirrored, and when the run has
\* failed in the mirror step nothing was loaded, no connection was opened and
\* the snapshot file it wrote is still there with the content it was written
\* with.
C18_MirrorFailsLoudly ==
    [][ \A r \in Procs :
          /\ UploadStep(r)
             => /\ files' = files
                /\ raw' = raw
                /\ \/ proc'[r].pc = "failed" /\ proc'[r].err \in UploadErrors
                   \/ proc'[r].pc = "connect" /\ proc'[r].uploaded
          /\ (proc[r].prod /\ PastUpload(r)) => proc[r].uploaded
          /\ ( /\ proc'[r].pc = "failed"
               /\ proc'[r].err \in UploadErrors
               /\ proc'[r].parquet_path # <<>> )
             => /\ proc'[r].prod
                /\ proc'[r].parquet_path \in DOMAIN files'
                /\ files'[proc'[r].parquet_path] = proc'[r].df
                /\ proc'[r].loads = 0
                /\ ~proc'[r].con
      ]_vars

\* C18 witness: a run started with --prod and a bucket has failed in the
\* copy itself, and the snapshot it wrote, with rows, is in the directory.
C18_Witness ==
    \E r \in Procs :
        /\ proc[r].pc = "failed"
        /\ proc[r].err = "S3UploadFailedError"
        /\ proc[r].prod
        /\ proc[r].s3_bucket = "bucket"
        /\ proc[r].parquet_path \in DOMAIN files
        /\ files[proc[r].parquet_path] = proc[r].df
        /\ Len(proc[r].df.rows) > 0

\* the pipeline run is at one of its steps
Running == \E i \in 1..Len(Steps) : Steps[i] = run.step

\* the steps begun are the first steps of the fixed order, each begun after
\* all before it returned successfully, and the run's report matches
InOrder ==
    LET n == Len(run.began)
    IN  /\ n <= Len(Steps)
        /\ run.began = SubSeq(Steps, 1, n)
        /\ run.step = "idle" => n = 0
        /\ Running
           => /\ n >= 1
              /\ run.step = run.began[n]
              /\ run.returned = SubSeq(Steps, 1, n - 1)
              /\ run.failed_at = None
        /\ run.step = "failed"
           => /\ n >= 1
              /\ run.failed_at = run.began[n]
              /\ run.returned = SubSeq(Steps, 1, n - 1)
        /\ run.step = "success"
           => /\ run.began = Steps
              /\ run.returned = Steps
              /\ run.failed_at = None

\* the steps inside ingestion come in the order source load, snapshot write,
\* mirror (under --prod), RAW load
IngestionInOrder ==
    LET p == proc[Pipeline]
    IN  /\ p.pc = "write_parquet" => (p.parquet_path = <<>> /\ ~p.con /\ p.loads = 0)
        /\ p.parquet_path # <<>> => p.parquet_path \in DOMAIN files
        /\ p.uploaded => p.parquet_path # <<>>
        /\ p.pc = "upload_to_s3" => (~p.con /\ p.loads = 0)
        /\ p.con => (p.parquet_path # <<>> /\ (p.prod => p.uploaded))
        /\ p.loads > 0 => p.con \/ p.pc = "done"

\* each step's work is done while the run is at that step
WorkAtItsStep ==
    /\ proc[Pipeline].pc # "idle" => run.step = "run_ingestion"
    /\ gate.pc # "idle" => run.step = "validate_data_quality"
    /\ (raw' # raw \/ files' # files) => run.step = "run_ingestion"
    /\ (silver' # silver \/ gold' # gold) => run.step = "run_dbt_models"
    /\ Len(run.began) >= 2 => raw.exists

Returned(step) == \E i \in 1..Len(run.returned) : run.returned[i] = step

\* a step of the current run has been begun
Began(step) == \E i \in 1..Len(run.began) : run.began[i] = step

\* the run has ended and its result is reported
Ended == run.step \in {"success", "failed"}

AllStagesSucceeded(r) ==
    /\ proc[r].err = None
    /\ proc[r].df # EmptyFrame
    /\ proc[r].parquet_path \in DOMAIN files
    /\ proc[r].prod => proc[r].uploaded
    /\ proc[r].loads = 1
    /\ raw.exists
    /\ proc[r].count = Len(raw.rows)
    /\ ~proc[r].con

\* C21: when the ingestion script has ended, its exit status is 0 exactly
\* when source loading, snapshot writing, the mirror (under --prod) and the
\* RAW load all succeeded, and a run that failed in any stage has a nonzero
\* exit status; when the pipeline runner has ended, its exit status is 0
\* exactly when every one of its steps returned, and it is nonzero whenever a
\* step failed.
C21_ExitStatus ==
    /\ \A r \in Procs :
          proc[r].pc \in {"done", "failed"}
          => /\ returncode(proc[r]) = 0 <=> AllStagesSucceeded(r)
             /\ proc[r].pc = "failed"
                => /\ returncode(proc[r]) # 0
                   /\ proc[r].err # None
    /\ Ended
       => /\ exit_status(run.step) = 0 <=> run.returned = Steps
          /\ run.failed_at # None <=> exit_status(run.step) # 0
    /\ run.failed_at # None => Ended

\* C21 witness: a script that had written (and mirrored) its snapshot failed
\* in its INSERT and has exit status 1.
C21_Witness ==
    \E r \in Procs :
        /\ proc[r].pc = "failed"
        /\ proc[r].err = "InsertError"
        /\ proc[r].parquet_path \in DOMAIN files
        /\ proc[r].uploaded
        /\ returncode(proc[r]) = 1

\* C22: within one ingestion run the mode is one value at every stage: it is
\* the mode parse_args resolved and no step of the run changes it; when
\* run_ingestion starts the run it is the mode passed as --mode and it
\* selects the source (the single file for full_refresh, the directory for
\* incremental); it is the mode in the snapshot's file name; and it selects
\* the statements of load_to_duckdb (DROP and CREATE for full_refresh, the
\* existence check with CREATE or INSERT for incremental).
C22_ModeThreaded ==
    [][ \A r \in Procs :
          LET p == proc'[r]
          IN  /\ (proc[r].pc \notin {"idle", "failed"} /\ p.pc # "idle")
                 => p.mode = proc[r].mode
              /\ Loaded(r)'
                 => /\ p.mode \in Modes
                    /\ p.mode = ParseMode(p.args.mode)
                    /\ p.args.via = "run_ingestion"
                       => /\ p.args.mode = p.mode
                          /\ p.mode = "full_refresh"
                             => SourceMode(p.args.excel, p.args.excel_dir) = "single"
                          /\ p.mode = "incremental"
                             => /\ SourceMode(p.args.excel, p.args.excel_dir) = "directory"
                                /\ p.args.excel_pattern = None
              /\ p.parquet_path # <<>> => p.parquet_path[2] = p.mode
              /\ p.pc \in {"drop", "create"} => p.mode = "full_refresh"
              /\ p.pc \in {"exists_check", "inc_create", "insert"}
                 => p.mode = "incremental"
              /\ (p.pc = "done" /\ proc[r].pc = "count")
                 => hist'[Len(hist')][1] = p.mode
      ]_vars

\* C22 witness: an incremental run that read the three rows of the directory
\* has written a snapshot named incremental and is at its INSERT.
C22_Witness ==
    \E r \in Procs :
        /\ proc[r].pc = "insert"
        /\ proc[r].mode = "incremental"
        /\ proc[r].parquet_path[2] = "incremental"
        /\ Len(proc[r].df.rows) = RowTotal(Matched("data", None))
        /\ Len(proc[r].df.rows) = 3

\* run r's load shared the store with another load_to_duckdb call
Overlapped(r) == proc[r].overlap

\* run r is at a statement of load_to_duckdb that assumes the table absent
AtCreate(r) == proc[r].pc \in {"create", "inc_create"}

IngestionStep == proc' # proc

\* a step of validate_data_quality
GateStep == gate' # gate

\* C24: the core writes RAW tables only: no step of an ingestion run and no
\* step of validate_data_quality creates, drops or changes the SILVER or the
\* GOLD table, and validate_data_quality leaves the RAW table unchanged too.
C24_Frame ==
    [][ /\ (IngestionStep \/ GateStep) => (silver' = silver /\ gold' = gold)
        /\ GateStep => raw' = raw ]_vars

\* C24 witness: with SILVER and GOLD built from an earlier load, a later
\* full_refresh run has dropped and re-created the RAW table.
C24_Witness ==
    /\ silver.exists
    /\ gold.exists
    /\ silver.n > 0
    /\ gold.n > 0
    /\ gate.pc = "idle"
    /\ proc[Pipeline].mode = "full_refresh"
    /\ proc[Pipeline].pre.exists
    /\ proc[Pipeline].pc = "count"

\* the errors with which validate_data_quality rejects an empty layer
EmptyLayer == {"RAW layer is empty", "SILVER layer is empty", "GOLD layer is empty"}

\* validate_data_quality has rejected an empty layer and its caller takes
\* the failure
GateRejectionTaken ==
    /\ run.step = "validate_data_quality"
    /\ gate.pc = "failed"
    /\ gate.err \in EmptyLayer
    /\ run' # run

\* C25: a quality-gate rejection is a hard pipeline failure that is not
\* retried: when validate_data_quality has failed on an empty layer, the
\* orchestrated pipeline ends as failed and does not execute the quality-gate
\* step again.
C25_GateNotRetried ==
    [][ GateRejectionTaken => run'.step = "failed" ]_vars

\* the call of the current step returns True to run_pipeline in this step
ReturnsTrue(step) ==
    /\ run.step = step
    /\ run'.returned = Append(run.returned, step)

\* the call of the current step raises to run_pipeline in this step
Propagates(step) ==
    /\ run.step = step
    /\ run'.step = "failed"
    /\ run'.failed_at = step
    /\ run'.returned = run.returned

\* the current step's call ends in this step
StepEnds(step) == run.step = step /\ run' # run

\* C26: no failure is swallowed by a step function: the call of run_ingestion,
\* run_dbt_models, run_dbt_tests and validate_data_quality ends either by
\* returning True or by raising to its caller, never both; run_ingestion
\* returns True only when the script exited with status 0 and raises when it
\* failed, run_dbt_models returns True only with the SILVER and GOLD tables
\* built, validate_data_quality returns True only when it read all three
\* counts and none was 0 and raises when a count or a check failed.
C26_NoFailureSwallowed ==
    [][ /\ \A step \in {"run_ingestion", "run_dbt_models", "run_dbt_tests",
                        "validate_data_quality"} :
              StepEnds(step) => (ReturnsTrue(step) # Propagates(step))
        /\ StepEnds("run_ingestion")
           => /\ ReturnsTrue("run_ingestion") <=> proc[Pipeline].pc = "done"
              /\ Propagates("run_ingestion") <=> proc[Pipeline].pc = "failed"
        /\ ReturnsTrue("run_dbt_models") => (silver'.exists /\ gold'.exists)
        /\ StepEnds("validate_data_quality")
           => /\ ReturnsTrue("validate_data_quality")
                 <=> /\ gate.pc = "done"
                     /\ gate.raw_count > 0
                     /\ gate.silver_count > 0
                     /\ gate.gold_count > 0
              /\ Propagates("validate_data_quality") <=> gate.pc = "failed" ]_vars

\* C26 witness: in one run run_ingestion, run_dbt_models and run_dbt_tests
\* returned True after their work, validate_data_quality raised on an empty
\* layer, and the run ended as failed at that step.
C26_Witness ==
    /\ run.step = "failed"
    /\ run.failed_at = "validate_data_quality"
    /\ run.returned = <<"run_ingestion", "run_dbt_deps", "run_dbt_models", "run_dbt_tests">>
    /\ raw.exists
    /\ silver.exists
    /\ gold.n = 0

\* the source arguments of run r name nothing that can be loaded: a missing
\* path, a missing directory, a directory in which nothing matches, or no
\* source at all
SourceFailure(r) ==
    /\ ArgsKnown(r)
    /\ LET a == proc[r].args
       IN  \/ a.excel # None /\ a.excel \notin DOMAIN ExcelRows
           \/ a.excel = None /\ a.excel_dir # None /\ a.excel_dir \notin DOMAIN DirListing
           \/ /\ a.excel = None
              /\ a.excel_dir \in DOMAIN DirListing
              /\ Matched(a.excel_dir, a.excel_pattern) = <<>>
           \/ a.excel = None /\ a.excel_dir = None

\* C27: a failure in source loading happens before any side effect: the step
\* that starts a run whose source cannot be loaded ends the run as failed,
\* with the error of load_excel_files unless the command line was rejected
\* before, having written no snapshot file, opened no connection and left the
\* RAW table as it was, and no later step of the run changes any of them.
C27_SourceFailureFirst ==
    [][ \A r \in Procs :
          /\ (SourceFailure(r)' /\ proc[r].pc = "idle")
             => /\ proc'[r].pc = "failed"
                /\ proc'[r].err \in {"FileNotFoundError", "ValueError", "SystemExit"}
                /\ proc'[r].err = "ValueError"
                   => (proc'[r].args.excel = None /\ proc'[r].args.excel_dir = None)
                /\ proc'[r].err = "SystemExit"
                   => \/ ParseMode(proc'[r].args.mode) \notin Modes
                      \/ proc'[r].args.via = "run_pipeline" /\ proc'[r].publish
                /\ proc'[r].parquet_path = <<>>
                /\ proc'[r].loads = 0
                /\ ~proc'[r].con
                /\ files' = files
                /\ writes' = writes
                /\ raw' = raw
                /\ hist' = hist
          /\ SourceFailure(r)
             => /\ proc'[r].pc \in {"failed", "idle"}
                /\ files' = files
                /\ writes' = writes
                /\ raw' = raw ]_vars

\* C27 witness: after a first run has loaded the RAW table, a run over a
\* directory in which no file matches the pattern has failed: the one
\* snapshot file and the table's rows are those of the first run.
C27_Witness ==
    \E r \in Procs :
        /\ proc[r].pc = "failed"
        /\ proc[r].err = "FileNotFoundError"
        /\ proc[r].args.excel = None
        /\ proc[r].args.excel_dir = "data"
        /\ proc[r].args.excel_pattern = "z*"
        /\ proc[r].parquet_path = <<>>
        /\ raw.exists
        /\ Len(raw.rows) > 0
        /\ Cardinality(DOMAIN files) = 1
        /\ Len(hist) = 1

\* run r, started with mirroring, has failed in its upload step
UploadFailed(r) ==
    /\ proc[r].pc = "failed"
    /\ proc[r].prod
    /\ proc[r].parquet_path # <<>>
    /\ proc[r].err \in UploadErrors
    /\ ~proc[r].con

\* run r, started with mirroring, has not got past its upload step
NotPastUpload(r) ==
    \/ proc[r].prod /\ proc[r].pc \in {"write_parquet", "upload_to_s3"}
    \/ UploadFailed(r)

\* C28 (as claimed): a run with mirroring that fails in the upload has added
\* one file to the snapshot directory: its write step makes the directory one
\* file larger.
C28_GainedOneFile ==
    [][ \A r \in Procs :
          (WriteStep(r) /\ proc[r].prod)
          => Cardinality(DOMAIN files') = Cardinality(DOMAIN files) + 1 ]_vars

\* C28 (amended): in a run with mirroring the upload comes strictly after the
\* snapshot is written and strictly before the RAW load: the write step leads
\* to the upload step with the file written, at the upload step no connection
\* is open and nothing was loaded, and the load starts only from an upload
\* that succeeded. When the upload fails the run ends there: no step of the
\* run, from its start on, has changed the RAW table, and the snapshot
\* directory holds the files it held plus the run's file, one file more unless
\* the run's file name repeats the name of an existing file.
C28_UploadBetween ==
    [][ \A r \in Procs :
          /\ (WriteStep(r) /\ proc[r].prod)
             => /\ proc'[r].pc = "upload_to_s3"
                /\ DOMAIN files' = DOMAIN files \cup {proc'[r].parquet_path}
                /\ files'[proc'[r].parquet_path] = proc[r].df
                /\ \A n \in DOMAIN files \ {proc'[r].parquet_path} : files'[n] = files[n]
                /\ Cardinality(DOMAIN files')
                     = IF proc'[r].parquet_path \in DOMAIN files
                       THEN Cardinality(DOMAIN files)
                       ELSE Cardinality(DOMAIN files) + 1
          /\ proc'[r].pc = "upload_to_s3"
             => /\ proc'[r].parquet_path \in DOMAIN files'
                /\ ~proc'[r].con
                /\ proc'[r].loads = 0
          /\ (proc[r].prod /\ proc'[r].pc = "connect" /\ proc[r].pc # "connect")
             => (proc[r].pc = "upload_to_s3" /\ proc'[r].uploaded)
          /\ NotPastUpload(r)' => raw' = raw
          /\ UploadFailed(r)'
             => /\ proc'[r].loads = 0
                /\ proc'[r].parquet_path \in DOMAIN files'
          /\ UploadFailed(r)
             => /\ files' = files
                /\ proc'[r].pc \in {"failed", "idle"} ]_vars

\* C28 witness: after a first run has loaded the RAW table, a run with
\* mirroring has written its snapshot beside the first run's and has failed
\* in the upload; the table holds the first run's rows.
C28_Witness ==
    \E r \in Procs :
        /\ UploadFailed(r)
        /\ proc[r].err = "S3UploadFailedError"
        /\ Len(hist) = 1
        /\ raw.exists
        /\ Len(raw.rows) = hist[1][2]
        /\ Len(raw.rows) > 0
        /\ Cardinality(DOMAIN files) = 2
        /\ Len(proc[r].df.rows) > 0

\* incremental run r saw the table absent at its existence check, with
\* another load sharing the store
SawAbsent(r) ==
    /\ proc[r].mode = "incremental"
    /\ Overlapped(r)
    /\ proc[r].pc \in {"inc_create", "count", "done", "failed"}
    /\ proc[r].con \/ proc[r].pc = "done"
    /\ ~proc[r].pre.exists
    /\ ~proc[r].table_exists
    /\ proc[r].err \in {None, "CreateError", "CountError"}

AllLayersExist == raw.exists /\ silver.exists /\ gold.exists

\* validate_data_quality has ended, by returning or by raising
GateEnded == gate.pc \in {"done", "failed"}

\* C30: validate_data_quality reads the three counts before it checks any and
\* checks them in the order RAW, SILVER, GOLD: at the checks and after them
\* all three tables exist and the counts are those of the tables, a rejection
\* names the first empty layer in that order, and when one of the three
\* tables does not exist the gate has failed, with the error of the store and
\* not with a rejection, instead of passing (a gate that could not connect
\* has read nothing).
C30_CountsThenChecks ==
    /\ (gate.pc = "check" \/ (GateEnded /\ gate.err \in EmptyLayer \cup {None}))
       => /\ AllLayersExist
          /\ gate.raw_count = Len(raw.rows)
          /\ gate.silver_count = silver.n
          /\ gate.gold_count = gold.n
    /\ (gate.pc = "failed" /\ gate.err # "ConnectError")
       => /\ gate.err = "CatalogError" <=> ~AllLayersExist
          /\ gate.err = "RAW layer is empty" <=> (AllLayersExist /\ Len(raw.rows) = 0)
          /\ gate.err = "SILVER layer is empty"
             <=> (AllLayersExist /\ Len(raw.rows) > 0 /\ silver.n = 0)
          /\ gate.err = "GOLD layer is empty"
             <=> (AllLayersExist /\ Len(raw.rows) > 0 /\ silver.n > 0 /\ gold.n = 0)
    /\ gate.pc = "done"
       => (Len(raw.rows) > 0 /\ silver.n > 0 /\ gold.n > 0)
    /\ (GateEnded /\ ~AllLayersExist)
       => /\ gate.pc = "failed"
          /\ gate.err \in {"ConnectError", "CatalogError"}

\* C30 witness: with all three layers empty the gate has read the three
\* counts and has failed naming the RAW layer.
C30_Witness ==
    /\ gate.pc = "failed"
    /\ gate.err = "RAW layer is empty"
    /\ AllLayersExist
    /\ gate.raw_count = 0
    /\ gate.silver_count = 0
    /\ gate.gold_count = 0

====
